---------------------------- MODULE Spec2Model ----------------------------
(***************************************************************************)
(* The research control loop of the deep-research agent: the LangGraph     *)
(* workflow of src/src/agents/graph.py, its nodes and its two routing      *)
(* functions, run on the single AgentState record that main.py builds.     *)
(*                                                                         *)
(* Conventions.                                                            *)
(*  - `state` is the AgentState dict.  Every node and both routing         *)
(*    functions receive it, assign to its keys and hand it on, so the      *)
(*    model keeps one record and applies each assignment to it.            *)
(*  - A key main.py does not put in initial_state holds the default the    *)
(*    readers pass to state.get: [] for reflection_memory, 0.0 for         *)
(*    confidence_score, {} for discovered_entities.                        *)
(*  - `pc` is the node or routing function that runs next.                 *)
(*  - `raised` is the exception raised while the latest node ran (None     *)
(*    when there was none), `steps` the number of nodes the graph has run, *)
(*    `result` what DeepResearchAgent.research returned.                   *)
(*  - `search` is one call of SearchExecutor.parallel_search: its batch,   *)
(*    its semaphore, its tasks and what asyncio.gather gave the caller.    *)
(*  - `call` is one call of a function of research_utils.py taken on its   *)
(*    own: its arguments and, once it returned, its value.                 *)
(*  - `sessions` is the wall clock and the session ids that                *)
(*    DeepResearchAgent.research has given out so far.                     *)
(*  - Floats are fixed-point: a component of the confidence score is in    *)
(*    hundredths, a weight is in hundredths, a score is in 1/10000.        *)
(***************************************************************************)
EXTENDS Integers, Sequences, FiniteSets

VARIABLES state, pc, raised, steps, result, search, call, sessions

vars == <<state, pc, raised, steps, result, search, call, sessions>>

None == "None"

(* ----------------------------- bounds --------------------------------- *)

\* max_depth of a session ranges over 1..MaxDepthBound
MaxDepthBound == 4

\* max_depth of a session long enough to run into the recursion limit
DeepMaxDepth == 40

\* a batch of parallel_search holds up to MaxBatch queries and its
\* max_concurrent ranges over 1..MaxLimit
MaxBatch == 3
MaxLimit == 2

\* max_depth of a session whose planner may return any list of
\* CapabilityLists ranges over 1..PlanningDepthBound
PlanningDepthBound == 3

\* the clock runs for MaxTicks ticks and up to MaxSessions sessions start
MaxTicks == 7
MaxSessions == 3

\* check_stagnation is called on histories of up to MaxHistory reflections
\* with windows 0..MaxWindow
MaxHistory == 4
MaxWindow == 3

(* ------------------- settings (src/src/config/settings.py) ------------ *)

confidence_threshold == 8500
confidence_weight_findings == 40
confidence_weight_sources == 30
confidence_weight_gaps == 20
confidence_weight_validation == 10
stagnation_check_iterations == 2

\* max_queries_per_depth has no default in settings.py: the deployment sets it
max_queries_per_depth == 2

\* config["recursion_limit"] of DeepResearchAgent.research
recursion_limit == 100

\* the defaults and the normalisation written in calculate_confidence_score
NeutralComponent == 50
NoGapCoverage == 80
FullComponent == 100
SourcesForFullValidation == 5

(* ------------------------- external outputs --------------------------- *)

\* what the query-generation capability can return for one planning round
PlannerOutputs == { <<>>, <<"q1">>, <<"q1", "q2">> }

\* lists the capability is free to return, SearchQueriesList.queries being
\* any List[str]: a repeated query, an empty string, more than
\* max_queries_per_depth queries
CapabilityLists ==
    PlannerOutputs \cup { <<"q1", "q1">>, <<"">>, <<"q1", "q2", "q3">> }

\* the number of sources one search round can report
SourceCounts == {0, 5}

EntityNames == {"e1"}

\* ReflectionOutput records the reflection capability can return: the
\* decision, the new entities, and evidence that scores low or high
ReflectionOf(cont, ents, strong) ==
    [ should_continue    |-> cont,
      new_entities       |-> ents,
      new_relationships  |-> [i \in 1..Len(ents) |-> << ents[i], "relationship", "subject" >>],
      red_flags          |-> IF strong
                             THEN << [finding |-> "rf", confidence |-> 100] >>
                             ELSE << >>,
      source_credibility |-> IF strong THEN << [credibility |-> 100] >> ELSE << >>,
      identified_gaps    |-> << >>,
      gaps_searched      |-> << >>,
      gaps_unfillable    |-> << >>,
      neutral_facts      |-> IF strong THEN << >> ELSE << "n" >>,
      positive_indicators |-> IF strong THEN << "p" >> ELSE << >> ]

ReflectionOutputs ==
    { ReflectionOf(c, e, s) : c \in BOOLEAN, e \in { <<>>, <<"e1">> }, s \in BOOLEAN }

(* ------------------------------ helpers ------------------------------- *)

Min(a, b) == IF a <= b THEN a ELSE b
Max(a, b) == IF a >= b THEN a ELSE b

RECURSIVE SumOver(_, _)
\* sum(f(x) for x in seq), f given as a sequence of the values
SumOver(seq, i) == IF i > Len(seq) THEN 0 ELSE seq[i] + SumOver(seq, i + 1)

SeqToSet(seq) == { seq[i] : i \in 1..Len(seq) }

(* --------------- src/src/utils/research_utils.py ----------------------- *)

\* the weights calculate_confidence_score reads from settings
settings ==
    [ confidence_weight_findings   |-> confidence_weight_findings,
      confidence_weight_sources    |-> confidence_weight_sources,
      confidence_weight_gaps       |-> confidence_weight_gaps,
      confidence_weight_validation |-> confidence_weight_validation ]

\* a return statement that hands back the weighted sum as it is
Clamped_NotAtAll(confidence_score) == confidence_score

\* min(max(confidence_score, 0.0), 1.0)
Clamped(confidence_score) ==
    Min(Max(confidence_score, 0), FullComponent * FullComponent)

\* a gap coverage that counts "no gaps identified" as nothing covered
GapCoverage_ZeroWithoutGaps(reflection_output) ==
    IF reflection_output.identified_gaps # <<>>
    THEN Min(((Len(reflection_output.gaps_searched)
                 + Len(reflection_output.gaps_unfillable)) * FullComponent)
                 \div Len(reflection_output.identified_gaps),
             FullComponent)
    ELSE 0

\* component 3 of calculate_confidence_score
GapCoverage(reflection_output) ==
    LET identified_gaps == reflection_output.identified_gaps
        gaps_addressed == Len(reflection_output.gaps_searched)
                              + Len(reflection_output.gaps_unfillable)
    IN  IF identified_gaps # <<>>
        THEN Min((gaps_addressed * FullComponent) \div Len(identified_gaps),
                 FullComponent)
        ELSE NoGapCoverage

\* calculate_confidence_score with the weights `s` in the place of settings
ConfidenceUnder(s, reflection_output, search_memory) ==
    LET red_flags == reflection_output.red_flags
        finding_confidence ==
            IF red_flags # <<>>
            THEN SumOver([i \in 1..Len(red_flags) |-> red_flags[i].confidence], 1)
                     \div Len(red_flags)
            ELSE NeutralComponent
        source_creds == reflection_output.source_credibility
        source_credibility ==
            IF source_creds # <<>>
            THEN SumOver([i \in 1..Len(source_creds) |-> source_creds[i].credibility], 1)
                     \div Len(source_creds)
            ELSE NeutralComponent
        gap_coverage == GapCoverage(reflection_output)
        total_sources ==
            SumOver([i \in 1..Len(search_memory) |-> search_memory[i].sources_found], 1)
        total_queries ==
            SumOver([i \in 1..Len(search_memory) |-> Len(search_memory[i].queries)], 1)
        cross_validation ==
            IF total_queries > 0
            THEN Min((total_sources * FullComponent)
                         \div (total_queries * SourcesForFullValidation),
                     FullComponent)
            ELSE 0
        confidence_score ==
              finding_confidence * s.confidence_weight_findings
            + source_credibility * s.confidence_weight_sources
            + gap_coverage * s.confidence_weight_gaps
            + cross_validation * s.confidence_weight_validation
    IN  Clamped(confidence_score)

\* calculate_confidence_score(reflection_output, search_memory, current_depth)
calculate_confidence_score(reflection_output, search_memory) ==
    ConfidenceUnder(settings, reflection_output, search_memory)

\* check_stagnation with the length test off by one (<= for <)
check_stagnation_OffByOne(reflection_memory, n_iterations) ==
    IF Len(reflection_memory) <= n_iterations
    THEN FALSE
    ELSE \A i \in (Len(reflection_memory) - n_iterations + 1)..Len(reflection_memory) :
             reflection_memory[i].new_entities = <<>>

\* check_stagnation without the length test: the slice is whatever is there
check_stagnation_NoLengthTest(reflection_memory, n_iterations) ==
    LET recent_reflections ==
            IF n_iterations = 0 \/ n_iterations >= Len(reflection_memory)
            THEN reflection_memory
            ELSE SubSeq(reflection_memory,
                        Len(reflection_memory) - n_iterations + 1,
                        Len(reflection_memory))
    IN  \A i \in 1..Len(recent_reflections) :
            recent_reflections[i].new_entities = <<>>

\* check_stagnation looping over the whole history instead of the last N
check_stagnation_WholeHistory(reflection_memory, n_iterations) ==
    IF Len(reflection_memory) < n_iterations
    THEN FALSE
    ELSE \A i \in 1..Len(reflection_memory) :
             reflection_memory[i].new_entities = <<>>

\* check_stagnation(reflection_memory, n_iterations)
check_stagnation(reflection_memory, n_iterations) ==
    IF Len(reflection_memory) < n_iterations
    THEN FALSE
    ELSE LET recent_reflections ==
                 IF n_iterations = 0
                 THEN reflection_memory
                 ELSE SubSeq(reflection_memory,
                             Len(reflection_memory) - n_iterations + 1,
                             Len(reflection_memory))
         IN  \A i \in 1..Len(recent_reflections) :
                 recent_reflections[i].new_entities = <<>>

\* merge_entities_with_llm: the results the call can produce
merge_entities_with_llm(existing_entities, new_entities) ==
    IF new_entities = <<>>
    THEN { existing_entities }
    ELSE IF existing_entities = {}
         THEN { SeqToSet(new_entities) }
         ELSE SUBSET EntityNames

(* ---------------- src/src/agents/edges/routing.py ---------------------- *)

\* the latest reflection recommends stopping
ReflectionStops(s) ==
    /\ s.reflection_memory # <<>>
    /\ ~ s.reflection_memory[Len(s.reflection_memory)].should_continue

\* a finish route that does not record why
FinishWith_ForgetsReason(s, reason) ==
    [ route |-> "finish", state |-> s ]

\* a continue route that moves the limit along with the depth
ContinueSearch_MovesLimit(s) ==
    [ route |-> "continue_search",
      state |-> [s EXCEPT !.current_depth = @ + 1, !.max_depth = @ + 1] ]

\* the five outcomes of should_continue_research
FinishWith(s, reason) ==
    [ route |-> "finish", state |-> [s EXCEPT !.termination_reason = reason] ]
Deepen(s) == [ route |-> "analyze", state |-> s ]
ContinueSearch(s) ==
    [ route |-> "continue_search", state |-> [s EXCEPT !.current_depth = @ + 1] ]

\* should_continue_research with the confidence test ahead of the depth test
should_continue_research_ConfidenceFirst(s) ==
    IF s.confidence_score >= confidence_threshold
    THEN FinishWith(s, "confidence_threshold_met")
    ELSE IF s.current_depth >= s.max_depth
    THEN FinishWith(s, "max_depth_reached")
    ELSE IF ReflectionStops(s)
    THEN FinishWith(s, "reflection_recommended_stop")
    ELSE IF check_stagnation(s.reflection_memory, stagnation_check_iterations)
    THEN Deepen(s)
    ELSE ContinueSearch(s)

\* should_continue_research with the reflection test ahead of the confidence test
should_continue_research_ReflectionFirst(s) ==
    IF s.current_depth >= s.max_depth
    THEN FinishWith(s, "max_depth_reached")
    ELSE IF ReflectionStops(s)
    THEN FinishWith(s, "reflection_recommended_stop")
    ELSE IF s.confidence_score >= confidence_threshold
    THEN FinishWith(s, "confidence_threshold_met")
    ELSE IF check_stagnation(s.reflection_memory, stagnation_check_iterations)
    THEN Deepen(s)
    ELSE ContinueSearch(s)

\* should_continue_research with the stagnation test ahead of the reflection test
should_continue_research_StagnationFirst(s) ==
    IF s.current_depth >= s.max_depth
    THEN FinishWith(s, "max_depth_reached")
    ELSE IF s.confidence_score >= confidence_threshold
    THEN FinishWith(s, "confidence_threshold_met")
    ELSE IF check_stagnation(s.reflection_memory, stagnation_check_iterations)
    THEN Deepen(s)
    ELSE IF ReflectionStops(s)
    THEN FinishWith(s, "reflection_recommended_stop")
    ELSE ContinueSearch(s)

\* should_continue_research with the depth test strict (> for >=)
should_continue_research_StrictDepth(s) ==
    IF s.current_depth > s.max_depth
    THEN FinishWith(s, "max_depth_reached")
    ELSE IF s.confidence_score >= confidence_threshold
    THEN FinishWith(s, "confidence_threshold_met")
    ELSE IF ReflectionStops(s)
    THEN FinishWith(s, "reflection_recommended_stop")
    ELSE IF check_stagnation(s.reflection_memory, stagnation_check_iterations)
    THEN Deepen(s)
    ELSE ContinueSearch(s)

\* should_continue_research(state): the route and the state it leaves
should_continue_research(s) ==
    IF s.current_depth >= s.max_depth
    THEN FinishWith(s, "max_depth_reached")
    ELSE IF s.confidence_score >= confidence_threshold
    THEN FinishWith(s, "confidence_threshold_met")
    ELSE IF ReflectionStops(s)
    THEN FinishWith(s, "reflection_recommended_stop")
    ELSE IF check_stagnation(s.reflection_memory, stagnation_check_iterations)
    THEN Deepen(s)
    ELSE ContinueSearch(s)

\* has_new_queries that leaves termination_reason alone on the empty branch
has_new_queries_NoReason(s) ==
    IF s.pending_queries # <<>>
    THEN [ route |-> "search_more", state |-> s ]
    ELSE [ route |-> "synthesize", state |-> s ]

\* has_new_queries(state)
has_new_queries(s) ==
    IF s.pending_queries # <<>>
    THEN [ route |-> "search_more", state |-> s ]
    ELSE [ route |-> "synthesize",
           state |-> [s EXCEPT !.termination_reason = "no_additional_queries"] ]

(* ------------------- src/src/agents/graph.py --------------------------- *)

\* the edges after analyze_and_reflect with continue_search wired to execute_search
AnalysisEdges_SkipPlanning(route) ==
    CASE route = "continue_search" -> "execute_search"
      [] route = "analyze"         -> "map_connections"
      [] route = "finish"          -> "synthesize_report"

\* the edges after analyze_and_reflect with finish wired to END, past synthesis
AnalysisEdges_FinishSkipsSynthesis(route) ==
    CASE route = "continue_search" -> "generate_queries"
      [] route = "analyze"         -> "map_connections"
      [] route = "finish"          -> "END"

\* the conditional edges after analyze_and_reflect
AnalysisEdges(route) ==
    CASE route = "continue_search" -> "generate_queries"
      [] route = "analyze"         -> "map_connections"
      [] route = "finish"          -> "synthesize_report"

\* the conditional edges after refine_queries
RefineEdges(route) ==
    CASE route = "search_more" -> "execute_search"
      [] route = "synthesize"  -> "synthesize_report"

\* the plain edge leaving a planning node
PlanningEdge(node) ==
    IF node = "generate_queries" THEN "execute_search" ELSE "has_new_queries"

(* --------------------- src/src/main.py --------------------------------- *)

\* initial_state of DeepResearchAgent.research
InitialState(max_depth) ==
    [ session_id          |-> "session_id",
      subject             |-> "subject",
      subject_context     |-> "context",
      current_depth       |-> 0,
      max_depth           |-> max_depth,
      queries_executed    |-> << >>,
      pending_queries     |-> << >>,
      should_continue     |-> TRUE,
      termination_reason  |-> None,
      search_count        |-> 0,
      error_count         |-> 0,
      iteration_count     |-> 0,
      search_memory       |-> << >>,
      reflection_memory   |-> << >>,
      discovered_entities |-> {},
      confidence_score    |-> 0,
      risk_indicators     |-> [red_flags |-> << >>, neutral |-> << >>, positive |-> << >>],
      entity_graph        |-> {},
      final_report        |-> FALSE ]

\* research has not returned yet
Pending == [ type |-> "pending" ]

\* what falls out of the try block of research when ainvoke returns: the
\* block has no return statement, so the call returns None
CompletedResult == [ type |-> "NoneType" ]

\* an except block that returns the same error text for every exception
FailureResult_NoDetail(e) ==
    [ type |-> "dict", session_id |-> "session_id", success |-> FALSE, error |-> "error" ]

\* the dict the except block of research returns
FailureResult(e) ==
    [ type |-> "dict", session_id |-> "session_id", success |-> FALSE, error |-> e ]

\* no function of research_utils.py is being called on its own
NoCall == [ fn |-> "none" ]

\* the clock at 0 and no session id given out
NoSessions == [ now |-> 0, ids |-> << >> ]

\* no parallel_search is running
IdleSearch ==
    [ queries |-> << >>, max_concurrent |-> 0, semaphore |-> 0,
      tasks |-> << >>, calls |-> << >>, gather |-> "idle" ]

\* the session as research hands it to the graph
SessionStarts(max_depths) ==
    /\ \E max_depth \in max_depths : state = InitialState(max_depth)
    /\ pc = "initialize"
    /\ raised = None
    /\ steps = 0
    /\ result = Pending
    /\ search = IdleSearch
    /\ call = NoCall
    /\ sessions = NoSessions

Init == SessionStarts(1..MaxDepthBound)

(* ------------------------------ nodes ---------------------------------- *)

\* the graph runs one more node, which raised e (None: it returned)
NodeRan(e) ==
    /\ steps < recursion_limit
    /\ steps' = steps + 1
    /\ raised' = e
    /\ UNCHANGED <<result, search, call, sessions>>

\* a conditional edge is evaluated within the step of the node before it
EdgeTaken == UNCHANGED <<raised, steps, result, search, call, sessions>>

\* an exception swallowed at the node, the run going on to the routing decision
Propagated_Swallowed == "should_continue_research"

\* where an exception no node catches leaves the graph: ainvoke raises
Propagated == "FAILED"

\* initialize_session: setdefault leaves every key main.py set as it is
initialize_session ==
    /\ pc = "initialize"
    /\ pc' = "generate_queries"
    /\ UNCHANGED state
    /\ NodeRan(None)

\* a try block that adds the new queries to the pending ones
PlanningSucceeds_ExtendsPending(s, queries) ==
    [s EXCEPT !.pending_queries = @ \o queries,
              !.current_depth   = s.current_depth + 1,
              !.iteration_count = @ + 1]

\* the try block of generate_search_queries with the capability returning queries
PlanningSucceeds(s, queries) ==
    [s EXCEPT !.pending_queries = queries,
              !.current_depth   = s.current_depth + 1,
              !.iteration_count = @ + 1]

\* an except block that also restarts the depth count
PlanningFails_ResetsDepth(s) ==
    [s EXCEPT !.error_count = @ + 1,
              !.pending_queries = << >>,
              !.current_depth = 0]

\* an except block that counts the error and keeps the old pending queries
PlanningFails_KeepsPending(s) ==
    [s EXCEPT !.error_count = @ + 1]

\* the except block of generate_search_queries
PlanningFails(s) ==
    [s EXCEPT !.error_count = @ + 1,
              !.pending_queries = << >>]

\* QueryGenerator.generate_initial_queries: the lists it can return
generate_initial_queries == PlannerOutputs

\* QueryGenerator.refine_queries, which the node calls when current_depth > 0.
\* query_generator.py defines generate_refined_queries only, so the call
\* returns a list where the method is provided and raises AttributeError
\* (the failure branch of the node) where it is not.
refine_queries == PlannerOutputs

\* generate_search_queries when the query generator returns one of `lists`
PlanningRoundFrom(node, lists) ==
    /\ pc = node
    /\ \E queries \in lists : state' = PlanningSucceeds(state, queries)
    /\ pc' = PlanningEdge(node)
    /\ NodeRan(None)

\* generate_search_queries when the query generator returns a list
PlanningRound(node) ==
    PlanningRoundFrom(node, IF state.current_depth = 0
                            THEN generate_initial_queries
                            ELSE refine_queries)

\* generate_search_queries when anything in its try block raises
PlanningUnavailable(node) ==
    /\ pc = node
    /\ state' = PlanningFails(state)
    /\ pc' = PlanningEdge(node)
    /\ NodeRan("planner_error")

\* generate_search_queries, the node function of generate_queries and refine_queries
generate_search_queries(node) ==
    \/ PlanningRound(node)
    \/ PlanningUnavailable(node)

\* execute_web_search (src/agents/nodes/web_search.py is not part of the
\* sources): runs the pending queries and appends the round to search_memory,
\* tagged with the depth it ran at; with nothing pending it records nothing
execute_web_search ==
    /\ pc = "execute_search"
    /\ IF state.pending_queries = << >>
       THEN UNCHANGED state
       ELSE \E sources_found \in SourceCounts :
              state' = [state EXCEPT
                  !.search_memory = Append(@, [ depth         |-> state.current_depth,
                                                queries       |-> state.pending_queries,
                                                sources_found |-> sources_found ]),
                  !.queries_executed = @ \o state.pending_queries,
                  !.search_count = @ + Len(state.pending_queries)]
    /\ pc' = "analyze_and_reflect"
    /\ NodeRan(None)

\* a node that keeps the latest reflection only
Reflected_KeepsLatestOnly(s, reflection_result, merged_entities) ==
    [s EXCEPT
        !.reflection_memory   = << reflection_result >>,
        !.discovered_entities = merged_entities,
        !.confidence_score    =
            calculate_confidence_score(reflection_result, s.search_memory),
        !.risk_indicators     =
            [ red_flags |-> @.red_flags \o
                  [i \in 1..Len(reflection_result.red_flags) |->
                       reflection_result.red_flags[i].finding],
              neutral   |-> @.neutral \o reflection_result.neutral_facts,
              positive  |-> @.positive \o reflection_result.positive_indicators ],
        !.should_continue     = reflection_result.should_continue]

\* a node that stores the reflection before it calls the merge
MergeRaised_AfterAppend(s, reflection_result) ==
    [s EXCEPT !.reflection_memory = Append(@, reflection_result)]

\* analyze_and_reflect when merge_entities_with_llm raises: the state
\* updates come after the call, none has run
MergeRaised(s, reflection_result) == s

\* analyze_and_reflect after both capabilities returned
Reflected(s, reflection_result, merged_entities) ==
    [s EXCEPT
        !.reflection_memory   = Append(@, reflection_result),
        !.discovered_entities = merged_entities,
        !.confidence_score    =
            calculate_confidence_score(reflection_result, s.search_memory),
        !.risk_indicators     =
            [ red_flags |-> @.red_flags \o
                  [i \in 1..Len(reflection_result.red_flags) |->
                       reflection_result.red_flags[i].finding],
              neutral   |-> @.neutral \o reflection_result.neutral_facts,
              positive  |-> @.positive \o reflection_result.positive_indicators ],
        !.should_continue     = reflection_result.should_continue]

\* merge_entities_with_llm reaches its claude.extract_structured call
MergeCallsLLM(existing_entities, new_entities) ==
    new_entities # << >> /\ existing_entities # {}

\* a node without the guard: it always goes on to the reflection
NothingToAnalyze_Never(s) == FALSE

\* `if not state.get("search_memory")`: there is no search round to analyse
NothingToAnalyze(s) == s.search_memory = << >>

\* analyze_and_reflect
analyze_and_reflect ==
    /\ pc = "analyze_and_reflect"
    /\ IF NothingToAnalyze(state)
       THEN /\ UNCHANGED state
            /\ pc' = "should_continue_research"
            /\ NodeRan(None)
       ELSE \/ \E reflection_result \in ReflectionOutputs :
                 \E merged_entities \in
                        merge_entities_with_llm(state.discovered_entities,
                                                reflection_result.new_entities) :
                    /\ state' = Reflected(state, reflection_result, merged_entities)
                    /\ pc' = "should_continue_research"
                    /\ NodeRan(None)
            \/ \* claude.extract_structured raises in the reflection call:
               \* the node has no handler
               /\ UNCHANGED state
               /\ pc' = Propagated
               /\ NodeRan("reflection_error")
            \/ \* the reflection returned and the merge call raises: neither
               \* merge_entities_with_llm nor the node has a handler
               /\ \E reflection_result \in ReflectionOutputs :
                      /\ MergeCallsLLM(state.discovered_entities,
                                       reflection_result.new_entities)
                      /\ state' = MergeRaised(state, reflection_result)
               /\ pc' = Propagated
               /\ NodeRan("merge_error")

\* the conditional edge after analyze_and_reflect
RouteAfterAnalysis ==
    /\ pc = "should_continue_research"
    /\ LET r == should_continue_research(state)
       IN  /\ state' = r.state
           /\ pc' = AnalysisEdges(r.route)
    /\ EdgeTaken

\* map_connections
map_connections ==
    /\ pc = "map_connections"
    /\ pc' = "refine_queries"
    /\ UNCHANGED state
    /\ NodeRan(None)

\* the conditional edge after refine_queries
RouteAfterRefine ==
    /\ pc = "has_new_queries"
    /\ LET r == has_new_queries(state)
       IN  /\ state' = r.state
           /\ pc' = RefineEdges(r.route)
    /\ EdgeTaken

\* the end of the try block of synthesize_report
Synthesized(s) ==
    [s EXCEPT !.final_report = TRUE,
              !.should_continue = FALSE,
              !.termination_reason =
                  IF @ = None THEN "report_synthesized" ELSE @]

\* the except block of synthesize_report
SynthesisFailed(s) ==
    [s EXCEPT !.error_count = @ + 1,
              !.should_continue = FALSE,
              !.termination_reason = "report_generation_error"]

\* synthesize_report
synthesize_report ==
    /\ pc = "synthesize_report"
    /\ \/ /\ state' = Synthesized(state)
          /\ pc' = "END"
          /\ NodeRan(None)
       \/ /\ state' = SynthesisFailed(state)
          /\ pc' = Propagated
          /\ NodeRan("synthesis_error")

\* a node of the graph is due
NodeDue ==
    pc \in { "initialize", "generate_queries", "execute_search",
             "analyze_and_reflect", "map_connections", "refine_queries",
             "synthesize_report" }

\* the graph runner at the recursion limit: with a node still due after
\* recursion_limit steps, ainvoke raises GraphRecursionError
GraphRecursionLimit ==
    /\ NodeDue
    /\ steps >= recursion_limit
    /\ pc' = Propagated
    /\ raised' = "GraphRecursionError"
    /\ UNCHANGED <<state, steps, result, search, call, sessions>>

\* the value research returns once ainvoke returned or raised
Returned(completed, e) ==
    IF completed THEN CompletedResult ELSE FailureResult(e)

\* DeepResearchAgent.research after the graph: the try block ends, or the
\* except block returns the failure dict with str(e)
research_returns ==
    /\ pc \in {"END", "FAILED"}
    /\ result' = Returned(pc = "END", raised)
    /\ pc' = "RETURNED"
    /\ UNCHANGED <<state, raised, steps, search, call, sessions>>

Next ==
    \/ initialize_session
    \/ generate_search_queries("generate_queries")
    \/ execute_web_search
    \/ analyze_and_reflect
    \/ RouteAfterAnalysis
    \/ map_connections
    \/ generate_search_queries("refine_queries")
    \/ RouteAfterRefine
    \/ synthesize_report
    \/ research_returns

Spec == Init /\ [][Next]_vars

\* the graph runner executes the next node whenever there is one
FairSpec == Spec /\ WF_vars(Next)

(* --------------------- the planner returning any list ------------------ *)

\* the session with a query-generation capability that is held to nothing
\* but the schema of its output
PlanningInit == SessionStarts(1..PlanningDepthBound)

\* generate_search_queries with that capability
AnyPlanningRound(node) ==
    \/ PlanningRoundFrom(node, CapabilityLists)
    \/ PlanningUnavailable(node)

PlanningNext ==
    \/ initialize_session
    \/ AnyPlanningRound("generate_queries")
    \/ execute_web_search
    \/ analyze_and_reflect
    \/ RouteAfterAnalysis
    \/ map_connections
    \/ AnyPlanningRound("refine_queries")
    \/ RouteAfterRefine
    \/ synthesize_report
    \/ research_returns

PlanningSpec == PlanningInit /\ [][PlanningNext]_vars

(* --------------------- the run at the recursion limit ------------------ *)

\* sessions whose planner is down from the first round: every planning
\* round takes the except block, nothing is searched or analysed, and only
\* the depth rule or the recursion limit can end the loop
CeilingInit == SessionStarts({MaxDepthBound, DeepMaxDepth})

CeilingNext ==
    \/ initialize_session
    \/ PlanningUnavailable("generate_queries")
    \/ execute_web_search
    \/ analyze_and_reflect
    \/ RouteAfterAnalysis
    \/ synthesize_report
    \/ GraphRecursionLimit
    \/ research_returns

CeilingSpec == CeilingInit /\ [][CeilingNext]_vars

\* the graph runner and research keep going while there is something to do
FairCeilingSpec == CeilingSpec /\ WF_vars(CeilingNext)

(* --------------------- src/src/services/search/web_search.py ----------- *)

\* a task list that leaves out the last query of the batch
SearchStarts_SkipsLast(n, max_concurrent) ==
    [ queries        |-> [i \in 1..n |-> "q"],
      max_concurrent |-> max_concurrent,
      semaphore      |-> max_concurrent,
      tasks          |-> [i \in 1..(n - 1) |-> "waiting"],
      calls          |-> [i \in 1..n |-> 0],
      gather         |-> "awaiting" ]

\* parallel_search(queries, max_concurrent) at `await asyncio.gather(*tasks)`:
\* the semaphore holds max_concurrent permits, one limited_search task per
\* query waits for it and self.search has not been called for any
SearchStarts(n, max_concurrent) ==
    [ queries        |-> [i \in 1..n |-> "q"],
      max_concurrent |-> max_concurrent,
      semaphore      |-> max_concurrent,
      tasks          |-> [i \in 1..n |-> "waiting"],
      calls          |-> [i \in 1..n |-> 0],
      gather         |-> "awaiting" ]

SearchInit ==
    /\ state = InitialState(1)
    /\ pc = "parallel_search"
    /\ raised = None
    /\ steps = 0
    /\ result = Pending
    /\ call = NoCall
    /\ sessions = NoSessions
    /\ \E n \in 0..MaxBatch, max_concurrent \in 1..MaxLimit :
           search = SearchStarts(n, max_concurrent)

\* the rest of the session does not move while the batch runs
BatchOnly == UNCHANGED <<state, pc, raised, steps, result, call, sessions>>

\* the search calls that have started and not finished
InFlight(s) == { i \in DOMAIN s.tasks : s.tasks[i] = "running" }

\* a task may enter `async with semaphore` whatever the semaphore holds
SemaphoreFree_Unbounded(s) == TRUE

\* asyncio.Semaphore(max_concurrent): a task enters `async with semaphore`
\* only while a permit is left
SemaphoreFree(s) == s.semaphore > 0

\* asyncio.gather(*tasks): the first task that raises makes the await raise
\* in parallel_search, which has no handler; the other tasks are not cancelled
GatherAfterFailure(s) ==
    IF s.gather = "awaiting" THEN "raised" ELSE s.gather

\* limited_search(q) acquires the semaphore and calls self.search
limited_search_starts(i) ==
    /\ search.tasks[i] = "waiting"
    /\ SemaphoreFree(search)
    /\ search' = [search EXCEPT !.tasks[i] = "running",
                                !.semaphore = @ - 1,
                                !.calls[i] = @ + 1]
    /\ BatchOnly

\* self.search returns its WebSearchOutput; `async with` releases the permit
limited_search_returns(i) ==
    /\ search.tasks[i] = "running"
    /\ search' = [search EXCEPT !.tasks[i] = "done", !.semaphore = @ + 1]
    /\ BatchOnly

\* self.search raises (OpenAIService.web_search has no handler); `async with`
\* releases the permit and the exception reaches the gather
limited_search_raises(i) ==
    /\ search.tasks[i] = "running"
    /\ search' = [search EXCEPT !.tasks[i] = "failed",
                                !.semaphore = @ + 1,
                                !.gather = GatherAfterFailure(search)]
    /\ BatchOnly

\* every task returned: gather gives the list of results and
\* parallel_search returns it
gather_returns ==
    /\ search.gather = "awaiting"
    /\ \A i \in DOMAIN search.tasks : search.tasks[i] = "done"
    /\ search' = [search EXCEPT !.gather = "returned"]
    /\ BatchOnly

SearchNext ==
    \/ \E i \in DOMAIN search.tasks : limited_search_starts(i)
    \/ \E i \in DOMAIN search.tasks : limited_search_returns(i)
    \/ \E i \in DOMAIN search.tasks : limited_search_raises(i)
    \/ gather_returns

SearchSpec == SearchInit /\ [][SearchNext]_vars

\* the event loop runs a task that can run
FairSearchSpec == SearchSpec /\ WF_vars(SearchNext)

(* --------------------- calls of research_utils.py ---------------------- *)

\* the reflections a history is built from: one that reports no new
\* entity and one that reports one
HistoryReflections ==
    { ReflectionOf(TRUE, e, FALSE) : e \in { <<>>, <<"e1">> } }

\* the reflection histories of up to MaxHistory rounds
Histories ==
    UNION { [1..len -> HistoryReflections] : len \in 0..MaxHistory }

\* check_stagnation(reflection_memory, n_iterations) about to run
StagnationCalls ==
    { [ fn |-> "check_stagnation", reflection_memory |-> h,
        n_iterations |-> n, returned |-> << >> ] :
          h \in Histories, n \in 0..MaxWindow }

\* weights for calculate_confidence_score: the defaults of settings.py,
\* all weight on the findings, negative weights, weights that sum to 4.0
WeightSets ==
    { settings,
      [ confidence_weight_findings |-> 100, confidence_weight_sources |-> 0,
        confidence_weight_gaps |-> 0, confidence_weight_validation |-> 0 ],
      [ confidence_weight_findings |-> -50, confidence_weight_sources |-> -50,
        confidence_weight_gaps |-> -50, confidence_weight_validation |-> -50 ],
      [ confidence_weight_findings |-> 100, confidence_weight_sources |-> 100,
        confidence_weight_gaps |-> 100, confidence_weight_validation |-> 100 ] }

\* red_flags of a reflection: confidences 0.9, 0.5, and outside [0,1]
RedFlagLists ==
    { << >>,
      << [finding |-> "rf", confidence |-> 90] >>,
      << [finding |-> "rf", confidence |-> 90], [finding |-> "rf2", confidence |-> 50] >>,
      << [finding |-> "rf", confidence |-> 200] >>,
      << [finding |-> "rf", confidence |-> -50] >> }

\* source_credibility of a reflection
CredibilityLists ==
    { << >>, << [credibility |-> 100] >>, << [credibility |-> -50] >> }

\* identified_gaps, gaps_searched and gaps_unfillable of a reflection
GapReports ==
    { [ identified_gaps |-> << >>, gaps_searched |-> << >>, gaps_unfillable |-> << >> ],
      [ identified_gaps |-> <<"g1", "g2">>, gaps_searched |-> <<"g1">>,
        gaps_unfillable |-> << >> ],
      [ identified_gaps |-> <<"g1">>, gaps_searched |-> <<"g1">>,
        gaps_unfillable |-> <<"g2">> ] }

\* search_memory: nothing searched, a round without sources, rounds with
\* five sources per query and with more
SearchMemories ==
    { << >>,
      << [ depth |-> 1, queries |-> <<"q1", "q2">>, sources_found |-> 0 ] >>,
      << [ depth |-> 1, queries |-> <<"q1">>, sources_found |-> 5 ] >>,
      << [ depth |-> 1, queries |-> <<"q1">>, sources_found |-> 20 ] >>,
      << [ depth |-> 1, queries |-> <<"q1">>, sources_found |-> 5 ],
         [ depth |-> 2, queries |-> <<"q2", "q3">>, sources_found |-> 1 ] >> }

\* calculate_confidence_score(reflection_output, search_memory, current_depth)
\* about to run under some settings
ConfidenceCalls ==
    { [ fn |-> "calculate_confidence_score",
        settings |-> w,
        reflection_output |->
            [ red_flags |-> rf, source_credibility |-> sc,
              identified_gaps |-> g.identified_gaps,
              gaps_searched |-> g.gaps_searched,
              gaps_unfillable |-> g.gaps_unfillable ],
        search_memory |-> m,
        returned |-> << >> ] :
          w \in WeightSets, rf \in RedFlagLists, sc \in CredibilityLists,
          g \in GapReports, m \in SearchMemories }

\* a function is called on its own, outside any session
CallInit ==
    /\ state = InitialState(1)
    /\ pc = "call"
    /\ raised = None
    /\ steps = 0
    /\ result = Pending
    /\ search = IdleSearch
    /\ sessions = NoSessions
    /\ call \in StagnationCalls \cup ConfidenceCalls

\* the rest of the model does not move while the function runs
CallOnly == UNCHANGED <<state, pc, raised, steps, result, search, sessions>>

\* check_stagnation returns
check_stagnation_returns ==
    /\ call.fn = "check_stagnation"
    /\ call.returned = << >>
    /\ call' = [call EXCEPT !.returned =
                   << check_stagnation(call.reflection_memory, call.n_iterations) >>]
    /\ CallOnly

\* calculate_confidence_score returns
calculate_confidence_score_returns ==
    /\ call.fn = "calculate_confidence_score"
    /\ call.returned = << >>
    /\ call' = [call EXCEPT !.returned =
                   << ConfidenceUnder(call.settings, call.reflection_output,
                                      call.search_memory) >>]
    /\ CallOnly

CallNext ==
    \/ check_stagnation_returns
    \/ calculate_confidence_score_returns

CallSpec == CallInit /\ [][CallNext]_vars

(* --------------------- src/src/utils/helpers.py ------------------------ *)

\* the clock ticks twice a second: datetime.utcnow() is finer than the
\* %S that generate_session_id prints
TicksPerSecond == 2

\* generate_session_id() at clock reading `now`:
\* "sess_" + utcnow().strftime("%Y%m%d_%H%M%S"), the date and time to the second
generate_session_id(now) == << "sess", now \div TicksPerSecond >>

\* the file synthesize_report writes the report of session `session_id` to
report_path(session_id) == << "reports_dir", session_id, "_report.json" >>

SessionInit ==
    /\ state = InitialState(1)
    /\ pc = "sessions"
    /\ raised = None
    /\ steps = 0
    /\ result = Pending
    /\ search = IdleSearch
    /\ call = NoCall
    /\ sessions = NoSessions

\* nothing but the clock and the ids moves
SessionsOnly == UNCHANGED <<state, pc, raised, steps, result, search, call>>

\* time passes
clock_ticks ==
    /\ sessions.now < MaxTicks
    /\ sessions' = [sessions EXCEPT !.now = @ + 1]
    /\ SessionsOnly

\* DeepResearchAgent.research is called: session_id = generate_session_id()
research_starts ==
    /\ Len(sessions.ids) < MaxSessions
    /\ sessions' = [sessions EXCEPT !.ids = Append(@, generate_session_id(sessions.now))]
    /\ SessionsOnly

SessionNext ==
    \/ clock_ticks
    \/ research_starts

SessionSpec == SessionInit /\ [][SessionNext]_vars

(* ======================= properties of the controller ================== *)

\* the inputs of the routing decision, stated on the state itself
DepthExhausted == state.current_depth >= state.max_depth
ConfidenceMet == state.confidence_score >= confidence_threshold
LatestSaysStop ==
    /\ Len(state.reflection_memory) >= 1
    /\ state.reflection_memory[Len(state.reflection_memory)].should_continue = FALSE
LastReflectionsFoundNothing ==
    /\ Len(state.reflection_memory) >= stagnation_check_iterations
    /\ \A i \in 1..Len(state.reflection_memory) :
           i > Len(state.reflection_memory) - stagnation_check_iterations
               => state.reflection_memory[i].new_entities = <<>>
Routing == pc = "should_continue_research"

\* C1: in the routing decision after analysis, current_depth >= max_depth
\* always gives 'finish' with termination_reason = max_depth_reached,
\* whatever the confidence score, the latest reflection and the stagnation
\* check say.
C1_MaxDepthFinishes ==
    [][ (Routing /\ DepthExhausted)
            => /\ pc' = "synthesize_report"
               /\ state'.termination_reason = "max_depth_reached" ]_vars

C1_Witness ==
    /\ pc = "synthesize_report"
    /\ state.termination_reason = "max_depth_reached"
    /\ ConfidenceMet
    /\ LatestSaysStop
    /\ LastReflectionsFoundNothing

\* C2: with current_depth < max_depth and confidence_score >= threshold the
\* routing decision is 'finish' with termination_reason =
\* confidence_threshold_met, whether or not the latest reflection recommends
\* continuing and whether or not stagnation is detected.
C2_ConfidenceFinishes ==
    [][ (Routing /\ ~DepthExhausted /\ ConfidenceMet)
            => /\ pc' = "synthesize_report"
               /\ state'.termination_reason = "confidence_threshold_met" ]_vars

C2_Witness ==
    /\ pc = "synthesize_report"
    /\ state.termination_reason = "confidence_threshold_met"
    /\ ~DepthExhausted
    /\ LatestSaysStop
    /\ LastReflectionsFoundNothing

\* C3: with current_depth < max_depth, confidence below the threshold and a
\* latest reflection that recommends stopping, the routing decision is
\* 'finish' with termination_reason = reflection_recommended_stop, also when
\* the last N reflections show stagnation.
C3_ReflectionStopFinishes ==
    [][ (Routing /\ ~DepthExhausted /\ ~ConfidenceMet /\ LatestSaysStop)
            => /\ pc' = "synthesize_report"
               /\ state'.termination_reason = "reflection_recommended_stop" ]_vars

C3_Witness ==
    /\ pc = "synthesize_report"
    /\ state.termination_reason = "reflection_recommended_stop"
    /\ ~DepthExhausted
    /\ ~ConfidenceMet
    /\ LastReflectionsFoundNothing

\* C4: when the last N reflections all report zero new entities, confidence
\* is below the threshold, current_depth < max_depth and the latest
\* reflection recommends continuing, the controller routes to
\* map_connections, not to synthesis, and sets no termination_reason.
C4_StagnationDeepens ==
    [][ (Routing /\ ~DepthExhausted /\ ~ConfidenceMet /\ ~LatestSaysStop
                 /\ LastReflectionsFoundNothing)
            => /\ pc' = "map_connections"
               /\ state'.termination_reason = None
               /\ state' = state ]_vars

C4_Witness ==
    /\ pc = "map_connections"
    /\ Len(state.reflection_memory) = stagnation_check_iterations
    /\ LastReflectionsFoundNothing
    /\ state.termination_reason = None

\* C5: when none of the four earlier rules matches, the controller loops
\* back to query planning, and current_depth on entry to that planning
\* round is exactly one more than it was when the search results were
\* analysed (the analysis itself leaves current_depth as it was).
C5_LoopBackAdvancesDepthByOne ==
    [][ /\ (Routing /\ ~DepthExhausted /\ ~ConfidenceMet /\ ~LatestSaysStop
                    /\ ~LastReflectionsFoundNothing)
            => /\ pc' = "generate_queries"
               /\ state'.current_depth = state.current_depth + 1
        /\ (pc = "analyze_and_reflect" /\ pc' = "should_continue_research")
            => state'.current_depth = state.current_depth ]_vars

C5_Witness ==
    /\ pc = "generate_queries"
    /\ state.reflection_memory # <<>>
    /\ state.search_memory # <<>>
    /\ state.current_depth
           = state.search_memory[Len(state.search_memory)].depth + 1

\* C6: after refine_queries, a non-empty pending_queries leads to search
\* execution with no termination_reason set; an empty one leads to synthesis
\* with termination_reason = no_additional_queries.
C6_RefineRouting ==
    [][ pc = "has_new_queries"
            => IF state.pending_queries # <<>>
               THEN /\ pc' = "execute_search"
                    /\ state'.termination_reason = None
               ELSE /\ pc' = "synthesize_report"
                    /\ state'.termination_reason = "no_additional_queries" ]_vars

C6_Witness ==
    /\ pc = "synthesize_report"
    /\ state.pending_queries = <<>>
    /\ state.termination_reason = "no_additional_queries"
    /\ LastReflectionsFoundNothing
    /\ ~LatestSaysStop

C8_ReasonIffStopped ==
    (state.termination_reason # None) <=> (state.should_continue = FALSE)

\* C9: once termination_reason holds a non-null value, no later node or
\* routing function changes it.
C9_ReasonSetOnce ==
    [][ state.termination_reason # None
            => state'.termination_reason = state.termination_reason ]_vars

\* C10: current_depth <= max_depth holds every time a planning round
\* (generate_queries or refine_queries) is about to start.
C10_DepthWithinLimitAtPlanning ==
    pc \in {"generate_queries", "refine_queries"}
        => state.current_depth <= state.max_depth

C10_Witness ==
    /\ pc = "generate_queries"
    /\ state.current_depth = state.max_depth
    /\ state.reflection_memory # <<>>


(* ======================= depth, results and failures =================== *)

\* C11: current_depth never decreases: after every step of a session
\* (planning success and failure, search, analysis, each routing decision,
\* connection mapping, synthesis, the return of research) its value is at
\* least its value before the step.
C11_DepthNeverDecreases ==
    [][state'.current_depth >= state.current_depth]_vars

\* a planning round failed after the depth had advanced, and the run went on
C11_Witness ==
    /\ raised = "planner_error"
    /\ state.current_depth >= 2
    /\ pc = "has_new_queries"

C13_ResultIsSuccessOrFailure ==
    pc = "RETURNED" =>
        /\ result.type = "dict"
        /\ result.success = (raised = None)

\* C16: when query generation fails in generate_search_queries the node
\* does not raise: the run stays in the graph, pending_queries is empty and
\* error_count is exactly one more than before the node.
C16_PlanningFailureDegrades ==
    [][ raised' = "planner_error" /\ steps' # steps =>
            /\ pc' \in {"execute_search", "has_new_queries"}
            /\ state'.pending_queries = << >>
            /\ state'.error_count = state.error_count + 1
            /\ state'.current_depth = state.current_depth ]_vars

\* a refinement round failed while queries of the round before were pending
C16_Witness ==
    /\ raised = "planner_error"
    /\ pc = "has_new_queries"
    /\ state.queries_executed # << >>
    /\ state.pending_queries = << >>
    /\ state.error_count = 1

\* C17: after a planning round that ends with an empty query list, as
\* generate_queries or as refine_queries, the controller goes to synthesis:
\* search execution is never entered with an empty pending_queries.
C17_SearchNeverEnteredEmpty ==
    pc = "execute_search" => state.pending_queries # << >>

\* C18: a reflection capability that raises during analysis is not
\* recovered: the exception leaves the graph, no report is synthesized, no
\* termination reason is set, and research returns the failure result.
C18_ReflectionFailureFailsSession ==
    raised = "reflection_error" =>
        /\ pc \in {"FAILED", "RETURNED"}
        /\ ~state.final_report
        /\ state.termination_reason = None
        /\ pc = "RETURNED" => result = FailureResult("reflection_error")

\* research returned the failure result of a reflection that raised in a later round
C18_Witness ==
    /\ raised = "reflection_error"
    /\ pc = "RETURNED"
    /\ result.type = "dict" /\ ~result.success
    /\ state.current_depth >= 2
    /\ state.reflection_memory # << >>

\* C19: when the entity merge fails during analysis the session does not
\* fail: discovered_entities keeps its value and the run continues to the
\* routing decision.
C19_MergeFailureDegrades ==
    [][ raised' = "merge_error" /\ steps' # steps =>
            /\ pc' = "should_continue_research"
            /\ state'.discovered_entities = state.discovered_entities ]_vars


(* ======================= parallel_search =============================== *)

\* C14: during parallel_search over any batch with concurrency limit
\* L >= 1, the number of search calls that have started and not finished
\* never exceeds L, under every interleaving of starts, returns and failures.
C14_InFlightWithinLimit ==
    Cardinality(InFlight(search)) <= search.max_concurrent

\* the limit is reached while a query of the batch still waits and another failed
C14_Witness ==
    /\ Cardinality(InFlight(search)) = search.max_concurrent
    /\ \E i \in DOMAIN search.tasks : search.tasks[i] = "waiting"
    /\ \E i \in DOMAIN search.tasks : search.tasks[i] = "failed"

\* C15: when queries of a batch fail in parallel_search the batch is not
\* aborted: no exception reaches the caller of parallel_search.
C15_FailedQueryKeepsBatch ==
    search.gather # "raised"

(* ======================= the recursion limit =========================== *)

StagnationReturned(v) ==
    /\ call.fn = "check_stagnation"
    /\ call.returned = << v >>

\* none of the last n reflections of the history reports a new entity
LastReportNothing(h, n) ==
    \A i \in 1..Len(h) : i > Len(h) - n => h[i].new_entities = << >>

\* C21: check_stagnation(history, n) returns false whenever
\* len(history) < n, whatever the reflections in history contain.
C21_ShortHistoryNeverStagnates ==
    ( /\ call.fn = "check_stagnation"
      /\ call.returned # << >>
      /\ Len(call.reflection_memory) < call.n_iterations )
    => call.returned = << FALSE >>

\* a history shorter than the window, all of it without new entities, gave false
C21_Witness ==
    /\ StagnationReturned(FALSE)
    /\ Len(call.reflection_memory) = 2
    /\ call.n_iterations = 3
    /\ LastReportNothing(call.reflection_memory, 2)

\* C22: for n >= 1 and len(history) >= n, check_stagnation(history, n)
\* returns true if and only if none of the last n reflections reports a
\* new entity; older reflections do not count.
C22_StagnationIffLastNFoundNothing ==
    ( /\ call.fn = "check_stagnation"
      /\ call.returned # << >>
      /\ call.n_iterations >= 1
      /\ Len(call.reflection_memory) >= call.n_iterations )
    => call.returned = << LastReportNothing(call.reflection_memory, call.n_iterations) >>

\* true although a reflection older than the window reported a new entity
C22_Witness ==
    /\ StagnationReturned(TRUE)
    /\ call.n_iterations = 2
    /\ Len(call.reflection_memory) = 3
    /\ call.reflection_memory[1].new_entities # << >>


\* calculate_confidence_score has returned
ConfidenceReturned ==
    /\ call.fn = "calculate_confidence_score"
    /\ call.returned # << >>

\* 1.0 of a score, in 1/10000
One == FullComponent * FullComponent

\* the mean of the field values `xs`, 0.5 when there are none
MeanOrNeutral(xs) ==
    IF xs = << >> THEN NeutralComponent ELSE SumOver(xs, 1) \div Len(xs)

\* the reference formula clamp01(w1*F + w2*S + w3*G + w4*X) of the call
ReferenceScore ==
    LET r == call.reflection_output
        F == MeanOrNeutral([i \in 1..Len(r.red_flags) |-> r.red_flags[i].confidence])
        S == MeanOrNeutral([i \in 1..Len(r.source_credibility) |->
                                r.source_credibility[i].credibility])
        G == IF r.identified_gaps = << >>
             THEN NoGapCoverage
             ELSE Min(FullComponent,
                      ((Len(r.gaps_searched) + Len(r.gaps_unfillable)) * FullComponent)
                          \div Len(r.identified_gaps))
        sources == SumOver([i \in 1..Len(call.search_memory) |->
                                call.search_memory[i].sources_found], 1)
        queries == SumOver([i \in 1..Len(call.search_memory) |->
                                Len(call.search_memory[i].queries)], 1)
        X == IF queries = 0
             THEN 0
             ELSE Min(FullComponent,
                      (sources * FullComponent) \div (queries * SourcesForFullValidation))
        sum ==   call.settings.confidence_weight_findings * F
               + call.settings.confidence_weight_sources * S
               + call.settings.confidence_weight_gaps * G
               + call.settings.confidence_weight_validation * X
    IN  IF sum < 0 THEN 0 ELSE IF sum > One THEN One ELSE sum

\* C23: calculate_confidence_score returns a value in [0,1] for every
\* input: any weights (negative, summing above 1), any red-flag confidences
\* and source credibilities (outside [0,1] too), any gaps and search memory.
C23_ScoreWithinUnitInterval ==
    ConfidenceReturned => call.returned[1] \in 0..One

\* weights that sum to 4.0 and a confidence of 2.0 gave exactly 1.0
C23_Witness ==
    /\ ConfidenceReturned
    /\ call.settings.confidence_weight_findings
           + call.settings.confidence_weight_sources > FullComponent
    /\ call.reflection_output.red_flags # << >>
    /\ call.reflection_output.red_flags[1].confidence > FullComponent
    /\ call.returned = << One >>

\* C24: calculate_confidence_score equals the reference formula
\* clamp01(w1*F + w2*S + w3*G + w4*X) with F, S the means (0.5 when
\* empty), G the gap coverage (0.8 without gaps) and X the sources per
\* query over 5 (0 without queries); weights (1,0,0,0) and one red flag of
\* confidence 0.9 give 0.9.
C24_ScoreIsReferenceFormula ==
    ConfidenceReturned =>
        /\ call.returned = << ReferenceScore >>
        /\ ( /\ call.settings.confidence_weight_findings = FullComponent
             /\ call.settings.confidence_weight_sources = 0
             /\ call.settings.confidence_weight_gaps = 0
             /\ call.settings.confidence_weight_validation = 0
             /\ Len(call.reflection_output.red_flags) = 1
             /\ call.reflection_output.red_flags[1].confidence = 90 )
           => call.returned = << 9000 >>

\* the score under the default weights with no gap identified and sources to count
C24_Witness ==
    /\ ConfidenceReturned
    /\ call.settings = settings
    /\ call.reflection_output.identified_gaps = << >>
    /\ Len(call.reflection_output.red_flags) = 2
    /\ Len(call.search_memory) = 2
    /\ call.returned[1] \in 1..(One - 1)


(* ======================= the planned queries =========================== *)

\* a list of at most max_queries_per_depth distinct, non-empty query strings
WellFormedQueries(queries) ==
    /\ Len(queries) <= max_queries_per_depth
    /\ \A i \in 1..Len(queries) : queries[i] # ""
    /\ \A i, j \in 1..Len(queries) : i # j => queries[i] # queries[j]

\* C25: after every successful planning round pending_queries holds at
\* most max_queries_per_depth queries, all non-empty and pairwise
\* distinct, whatever list the capability returned.
C25_PendingQueriesWellFormed ==
    WellFormedQueries(state.pending_queries)

C27_SynthesisStartsStopped ==
    pc = "synthesize_report" => ~state.should_continue

\* C28: analyze_and_reflect run with an empty search_memory raises
\* nothing and returns the state with every field unchanged; the run goes on
\* to the routing decision.
C28_EmptySearchMemorySkipsAnalysis ==
    [][ ( /\ pc = "analyze_and_reflect"
          /\ state.search_memory = << >>
          /\ steps' # steps )
        => ( /\ state' = state
             /\ raised' = None
             /\ pc' = "should_continue_research" ) ]_vars

\* the analysis of a round whose planning failed has been skipped
C28_Witness ==
    /\ pc = "should_continue_research"
    /\ raised = None
    /\ state.search_memory = << >>
    /\ state.reflection_memory = << >>
    /\ state.error_count = 1

\* C30: a failed report synthesis leaves the research state as it was:
\* reflection_memory, risk_indicators, discovered_entities,
\* confidence_score, current_depth and the termination_reason chosen by
\* routing are unchanged, and the failure goes to the caller.
C30_FailedSynthesisKeepsState ==
    [][ (raised' = "synthesis_error" /\ steps' # steps)
        => ( /\ pc' = "FAILED"
             /\ state'.reflection_memory = state.reflection_memory
             /\ state'.risk_indicators = state.risk_indicators
             /\ state'.discovered_entities = state.discovered_entities
             /\ state'.confidence_score = state.confidence_score
             /\ state'.current_depth = state.current_depth
             /\ state'.termination_reason = state.termination_reason ) ]_vars


(* ======================= session ids =================================== *)

\* C29: any two research sessions get different session ids, also when
\* both start within the same clock second, so no two sessions share a
\* session-keyed report file.
C29_SessionIdsDistinct ==
    \A i, j \in 1..Len(sessions.ids) :
        i # j => /\ sessions.ids[i] # sessions.ids[j]
                 /\ report_path(sessions.ids[i]) # report_path(sessions.ids[j])


(* ======================= what each round writes ======================== *)

\* a planning node has just run
PlanningStep ==
    /\ pc \in {"generate_queries", "refine_queries"}
    /\ steps' # steps

\* `a` is a prefix of `b`
IsPrefix(a, b) ==
    /\ Len(a) <= Len(b)
    /\ \A i \in 1..Len(a) : a[i] = b[i]

C33_ReflectionMemoryAppendOnly ==
    [][ /\ IsPrefix(state.reflection_memory, state'.reflection_memory)
        /\ Len(state'.reflection_memory) <= Len(state.reflection_memory) + 1
        /\ ( /\ pc = "analyze_and_reflect"
             /\ state.search_memory # << >>
             /\ steps' # steps
             /\ raised' = None )
           => Len(state'.reflection_memory) = Len(state.reflection_memory) + 1
        /\ IsPrefix(state.risk_indicators.red_flags, state'.risk_indicators.red_flags)
        /\ IsPrefix(state.risk_indicators.neutral, state'.risk_indicators.neutral)
        /\ IsPrefix(state.risk_indicators.positive, state'.risk_indicators.positive)
      ]_vars

\* three analysis rounds are on record, with findings of each of them
C33_Witness ==
    /\ Len(state.reflection_memory) = 3
    /\ Len(state.risk_indicators.neutral) = 2
    /\ Len(state.risk_indicators.red_flags) = 1
    /\ Len(state.risk_indicators.positive) = 1

\* C34: discovered_entities never shrinks: after every analysis round,
\* whatever the merge returns, every entity that was a key before the
\* round is still there.
C34_EntitiesNeverShrink ==
    [][ state.discovered_entities \subseteq state'.discovered_entities ]_vars


\* the relationships the analysis rounds so far have extracted
ExtractedRelationships(s) ==
    UNION { SeqToSet(s.reflection_memory[i].new_relationships) :
                i \in 1..Len(s.reflection_memory) }

\* C35: after the connection-mapping step the relationships extracted by
\* the analysis rounds before it are in entity_graph.
C35_ConnectionsReachEntityGraph ==
    [][ (pc = "map_connections" /\ steps' # steps)
        => ExtractedRelationships(state) \subseteq state'.entity_graph ]_vars

\* C36: session_id, subject, subject_context and max_depth are never
\* modified after the initial state is built: every node and every
\* routing function leaves them unchanged.
C36_SessionIdentityImmutable ==
    [][ /\ state'.session_id = state.session_id
        /\ state'.subject = state.subject
        /\ state'.subject_context = state.subject_context
        /\ state'.max_depth = state.max_depth ]_vars

\* a session that went through every kind of node and route has ended
C36_Witness ==
    /\ pc = "END"
    /\ state.termination_reason = "no_additional_queries"
    /\ state.error_count >= 1
    /\ state.reflection_memory # << >>
    /\ state.session_id = "session_id"
    /\ state.max_depth = MaxDepthBound

\* C38: whenever a planning round takes the refined path
\* (current_depth > 0 on entry) reflection_memory is non-empty; only the
\* initial path runs without a reflection.
C38_RefinedPlanningHasReflection ==
    (pc \in {"generate_queries", "refine_queries"} /\ state.current_depth > 0)
        => state.reflection_memory # << >>

\* the four reasons the routing functions assign
RoutingReasons ==
    { "max_depth_reached", "confidence_threshold_met",
      "reflection_recommended_stop", "no_additional_queries" }

\* C39: whenever synthesize_report starts termination_reason holds one of
\* the four routing reasons, so report_synthesized is never assigned and
\* after a successful synthesis termination_reason is the routing reason.
C39_SynthesisKeepsRoutingReason ==
    /\ pc = "synthesize_report" => state.termination_reason \in RoutingReasons
    /\ state.final_report => state.termination_reason \in RoutingReasons

\* a report was synthesized for a session the confidence rule stopped
C39_Witness ==
    /\ state.final_report
    /\ state.termination_reason = "confidence_threshold_met"
    /\ Len(state.reflection_memory) >= 2

\* C40: an analysis round is all-or-nothing: if the reflection call or
\* the entity-merge call raises, none of reflection_memory,
\* discovered_entities, confidence_score, risk_indicators and
\* should_continue has been modified by that round.
C40_FailedAnalysisWritesNothing ==
    [][ (raised' \in {"reflection_error", "merge_error"} /\ steps' # steps)
        => /\ state'.reflection_memory = state.reflection_memory
           /\ state'.discovered_entities = state.discovered_entities
           /\ state'.confidence_score = state.confidence_score
           /\ state'.risk_indicators = state.risk_indicators
           /\ state'.should_continue = state.should_continue ]_vars

\* the merge call of a later round raised after its reflection had returned
C40_Witness ==
    /\ raised = "merge_error"
    /\ pc = "FAILED"
    /\ state.discovered_entities # {}
    /\ Len(state.reflection_memory) = 1
    /\ Len(state.search_memory) >= 1


\* self.search has been called exactly once for every query of the batch
EveryQuerySearchedOnce ==
    \A i \in DOMAIN search.queries : search.calls[i] = 1

\* C37: for a concurrency limit >= 1 and search calls that all return,
\* parallel_search terminates having called the search capability exactly
\* once for each query: none is skipped, none is retried.
C37_BatchSearchedExactlyOnce ==
    /\ [](\A i \in DOMAIN search.calls : search.calls[i] <= 1)
    /\ <>( \/ search.gather = "raised"
           \/ search.gather = "returned" /\ EveryQuerySearchedOnce )

\* a full batch went through a single permit and parallel_search returned
C37_Witness ==
    /\ search.gather = "returned"
    /\ Len(search.queries) = MaxBatch
    /\ search.max_concurrent = 1
    /\ EveryQuerySearchedOnce

=============================================================================
